---- MODULE Spec2Model ----
(***************************************************************************)
(* Model of the client-side command receiver / replay engine               *)
(* (client/src/command_receiver.rs).  Ticks are u16 values; a PawnKey is a *)
(* tagged pair <<variant, id>>; a command is an opaque handle.             *)
(*                                                                         *)
(* wrapping_diff and SequenceBuffer live in the naia_shared crate; they    *)
(* are modelled here from the description of sections 3, 4.A and 4.B of    *)
(* the specification.                                                      *)
(***************************************************************************)
EXTENDS Integers, Sequences, FiniteSets, TLC

\* ------------------------------------------------------------------------
\* Program constants and model bounds
\* ------------------------------------------------------------------------

\* a history of half the size
HalfHistorySize == 64 \div 2

\* const COMMAND_HISTORY_SIZE: u16 = 64
COMMAND_HISTORY_SIZE == 64

\* number of u16 values (ticks wrap modulo 2^16)
TickModulus == 65536

\* half of the tick circle: the i16 sign boundary of wrapping_diff
HalfCircle == TickModulus \div 2

\* the host queues no further command while incoming holds this many
\* registrations per kind in a run of the manifest; keeps the u16 counters
\* from overflowing
MaxRegistrations == 3

MaxIncoming == 2

\* PawnKey::State(1) and PawnKey::Entity(1): same inner id, distinct keys
Pawns == {<<"State", 1>>, <<"Entity", 1>>}

\* command handles handed in by the host
Commands == {"A", "B"}

\* tick runs of the host: consecutive ticks, ticks around the 65535 -> 0
\* wrap followed by a jump past the 64-tick window, and ticks that lie half
\* the circle apart
PlainTicks == {0, 1}
WrapTicks == {65535, 0, 65}
HalfTicks == {0, 32767, 32768, 32833}

\* what happens in one run: the pawns the host owns or names, the ticks it
\* is at, the commands it emits, and the ticks the network layer names
\* (a divergence at a tick, an acknowledgement up to a tick)
Runs ==
    { [pawns |-> Pawns, ticks |-> PlainTicks, commands |-> {"A"},
       reports |-> {0}],
      [pawns |-> {<<"State", 1>>}, ticks |-> WrapTicks, commands |-> Commands,
       reports |-> WrapTicks],
      [pawns |-> {<<"Entity", 1>>}, ticks |-> HalfTicks, commands |-> {"A"},
       reports |-> HalfTicks] }

\* the last tick of a run in which the host queues a command at every tick
\* from 0 on
FillLast == 70

\* Option::None
None == <<>>

NoPawn == <<"None", 0>>

\* ------------------------------------------------------------------------
\* Tick arithmetic (naia_shared::wrapping_diff, section 4.A)
\* ------------------------------------------------------------------------

\* diff(a, b) = (a - b) as signed 16-bit, a value in [-32768, 32767]
wrapping_diff(a, b) ==
    LET d == (a - b) % TickModulus
    IN  IF d >= HalfCircle THEN d - TickModulus ELSE d

\* ------------------------------------------------------------------------
\* SequenceBuffer (naia_shared::SequenceBuffer, section 4.B)
\* A buffer is [sequence_num, entries]; entries maps each occupied slot
\* index (tick mod C) to the <<tick, value>> stored there.
\* ------------------------------------------------------------------------

index(tick) == tick % COMMAND_HISTORY_SIZE

with_capacity ==
    [sequence_num |-> 0, entries |-> [i \in {} |-> None]]

\* write <<tick, value>> at slot tick mod C of the slots in keep
write_slot(entries, keep, tick, value) ==
    [i \in keep \cup {index(tick)} |->
        IF i = index(tick) THEN <<tick, value>> ELSE entries[i]]

insert(buf, tick, value) ==
    IF wrapping_diff(tick, buf.sequence_num) > 0
    THEN LET oldest == (tick - COMMAND_HISTORY_SIZE + 1) % TickModulus
             keep == {i \in DOMAIN buf.entries :
                         ~(wrapping_diff(buf.entries[i][1], oldest) < 0)}
         IN  [sequence_num |-> tick,
              entries |-> write_slot(buf.entries, keep, tick, value)]
    ELSE IF wrapping_diff(buf.sequence_num, tick) < COMMAND_HISTORY_SIZE
    THEN [buf EXCEPT !.entries = write_slot(buf.entries, DOMAIN buf.entries, tick, value)]
    ELSE buf

\* get / get_mut: Some(value), written <<value>>, iff the slot at tick mod C
\* stores exactly tick
get(buf, tick) ==
    IF index(tick) \in DOMAIN buf.entries /\ buf.entries[index(tick)][1] = tick
    THEN <<buf.entries[index(tick)][2]>>
    ELSE None

remove_until(buf, t) ==
    LET keep == {i \in DOMAIN buf.entries :
                    ~(wrapping_diff(t, buf.entries[i][1]) > 0)}
    IN  [buf EXCEPT !.entries = [i \in keep |-> buf.entries[i]]]

get_entries_count(buf) == Cardinality(DOMAIN buf.entries)

\* the ticks held by the buffer
stored_ticks(buf) == {buf.entries[i][1] : i \in DOMAIN buf.entries}

\* ------------------------------------------------------------------------
\* CommandReceiver state
\* ------------------------------------------------------------------------

VARIABLES
    queued_incoming_commands,  \* VecDeque<(u16, PawnKey, command)>
    command_history,           \* HashMap<PawnKey, SequenceBuffer>
    queued_command_replays,    \* VecDeque<(u16, PawnKey, command)>
    replay_trigger,            \* HashMap<PawnKey, u16>
    run,                       \* the run: pawns, ticks, commands and reported ticks
    last,                      \* the operation called last, with its arguments
    result,                    \* what the last pop returned (None, or <<entry>>)
    reset_calls,               \* calls the state manager received in the last operation
    fired                      \* replay_trigger as the last replay pass found it

\* Manifest state
VARIABLES
    event_gaia_id_count,       \* u16
    event_builder_map,         \* HashMap<u16, EventBuilder>, a builder written as its type id
    event_type_map,            \* HashMap<TypeId, u16>
    entity_gaia_id_count,      \* u16
    entity_builder_map,        \* HashMap<u16, EntityBuilder>, a builder written as its type id
    entity_type_map,           \* HashMap<TypeId, u16>
    event_calls,               \* the type ids register_event was called with, in call order
    entity_calls               \* the type ids register_entity was called with, in call order

receiver == <<queued_incoming_commands, command_history, queued_command_replays,
              replay_trigger, run, last, result, reset_calls, fired>>

manifest == <<event_gaia_id_count, event_builder_map, event_type_map,
              entity_gaia_id_count, entity_builder_map, entity_type_map,
              event_calls, entity_calls>>

vars == <<receiver, manifest>>

EmptyMap == [p \in {} |-> 0]

Call(op, pawn, tick, cmd) == [op |-> op, pawn |-> pawn, tick |-> tick, cmd |-> cmd]

\* Manifest::new
manifest_new ==
    /\ event_gaia_id_count = 0
    /\ event_builder_map = EmptyMap
    /\ event_type_map = EmptyMap
    /\ entity_gaia_id_count = 0
    /\ entity_builder_map = EmptyMap
    /\ entity_type_map = EmptyMap
    /\ event_calls = <<>>
    /\ entity_calls = <<>>

\* CommandReceiver::new
Init ==
    /\ manifest_new
    /\ queued_incoming_commands = <<>>
    /\ command_history = EmptyMap
    /\ queued_command_replays = <<>>
    /\ replay_trigger = EmptyMap
    /\ run \in Runs
    /\ last = Call("new", NoPawn, 0, "none")
    /\ result = None
    /\ reset_calls = <<>>
    /\ fired = EmptyMap

\* map with key k set to v
MapPut(m, k, v) == [x \in DOMAIN m \cup {k} |-> IF x = k THEN v ELSE m[x]]

\* map without key k
MapRemove(m, k) == [x \in DOMAIN m \ {k} |-> m[x]]

\* what an operation that returns nothing and calls no collaborator leaves behind
Quiet(op, pawn, tick, cmd) ==
    /\ last' = Call(op, pawn, tick, cmd)
    /\ result' = None
    /\ reset_calls' = <<>>
    /\ fired' = EmptyMap
    /\ UNCHANGED <<run, manifest>>

\* ------------------------------------------------------------------------
\* Operations
\* ------------------------------------------------------------------------

\* pop_command taking the newest entry (pop_back) instead of the oldest
pop_command_back ==
    /\ IF queued_incoming_commands = <<>>
       THEN /\ result' = None
            /\ UNCHANGED queued_incoming_commands
       ELSE /\ result' = <<queued_incoming_commands[Len(queued_incoming_commands)]>>
            /\ queued_incoming_commands' =
                   SubSeq(queued_incoming_commands, 1, Len(queued_incoming_commands) - 1)
    /\ last' = Call("pop_command", NoPawn, 0, "none")
    /\ reset_calls' = <<>>
    /\ fired' = EmptyMap
    /\ UNCHANGED <<command_history, queued_command_replays, replay_trigger, run, manifest>>

pop_command ==
    /\ IF queued_incoming_commands = <<>>
       THEN /\ result' = None
            /\ UNCHANGED queued_incoming_commands
       ELSE /\ result' = <<Head(queued_incoming_commands)>>
            /\ queued_incoming_commands' = Tail(queued_incoming_commands)
    /\ last' = Call("pop_command", NoPawn, 0, "none")
    /\ reset_calls' = <<>>
    /\ fired' = EmptyMap
    /\ UNCHANGED <<command_history, queued_command_replays, replay_trigger, run, manifest>>

pop_command_replay ==
    /\ IF queued_command_replays = <<>>
       THEN /\ result' = None
            /\ UNCHANGED queued_command_replays
       ELSE /\ result' = <<Head(queued_command_replays)>>
            /\ queued_command_replays' = Tail(queued_command_replays)
    /\ last' = Call("pop_command_replay", NoPawn, 0, "none")
    /\ reset_calls' = <<>>
    /\ fired' = EmptyMap
    /\ UNCHANGED <<command_history, queued_incoming_commands, replay_trigger, run, manifest>>

\* queue_command creating a history for a pawn that has none
\* (entry(pawn_key).or_insert_with(..) instead of get_mut)
queue_command_tracking(host_tick, pawn_key, command) ==
    /\ Len(queued_incoming_commands) < MaxIncoming
    /\ queued_incoming_commands' =
           Append(queued_incoming_commands, <<host_tick, pawn_key, command>>)
    /\ command_history' =
           MapPut(command_history, pawn_key,
                  insert(IF pawn_key \in DOMAIN command_history
                         THEN command_history[pawn_key]
                         ELSE with_capacity,
                         host_tick, command))
    /\ Quiet("queue_command", pawn_key, host_tick, command)
    /\ UNCHANGED <<queued_command_replays, replay_trigger>>

\* queue_command without the insert into the pawn's history
queue_command_unrecorded(host_tick, pawn_key, command) ==
    /\ Len(queued_incoming_commands) < MaxIncoming
    /\ queued_incoming_commands' =
           Append(queued_incoming_commands, <<host_tick, pawn_key, command>>)
    /\ command_history' = command_history
    /\ Quiet("queue_command", pawn_key, host_tick, command)
    /\ UNCHANGED <<queued_command_replays, replay_trigger>>

queue_command(host_tick, pawn_key, command) ==
    /\ Len(queued_incoming_commands) < MaxIncoming
    /\ queued_incoming_commands' =
           Append(queued_incoming_commands, <<host_tick, pawn_key, command>>)
    /\ command_history' =
           IF pawn_key \in DOMAIN command_history
           THEN [command_history EXCEPT
                    ![pawn_key] = insert(command_history[pawn_key], host_tick, command)]
           ELSE command_history
    /\ Quiet("queue_command", pawn_key, host_tick, command)
    /\ UNCHANGED <<queued_command_replays, replay_trigger>>

\* the comparison of replay_commands turned round: the later tick is kept
merged_trigger_latest(stored, history_tick) ==
    IF wrapping_diff(stored, history_tick) < 0 THEN history_tick ELSE stored

\* the trigger a pawn keeps when history_tick is requested over a stored one
merged_trigger(stored, history_tick) ==
    IF wrapping_diff(stored, history_tick) > 0 THEN history_tick ELSE stored

replay_commands(history_tick, pawn_key) ==
    /\ replay_trigger' =
           IF pawn_key \in DOMAIN replay_trigger
           THEN [replay_trigger EXCEPT
                    ![pawn_key] = merged_trigger(replay_trigger[pawn_key], history_tick)]
           ELSE MapPut(replay_trigger, pawn_key, history_tick)
    /\ Quiet("replay_commands", pawn_key, history_tick, "none")
    /\ UNCHANGED <<queued_incoming_commands, command_history, queued_command_replays>>

\* remove_history_until forgetting the entry at history_tick as well
remove_history_until_inclusive(history_tick, pawn_key) ==
    /\ command_history' =
           IF pawn_key \in DOMAIN command_history
           THEN [command_history EXCEPT
                    ![pawn_key] = remove_until(command_history[pawn_key],
                                               (history_tick + 1) % TickModulus)]
           ELSE command_history
    /\ Quiet("remove_history_until", pawn_key, history_tick, "none")
    /\ UNCHANGED <<queued_incoming_commands, queued_command_replays, replay_trigger>>

\* remove_history_until replacing the buffer by a fresh one instead of
\* calling remove_until on it
remove_history_until_fresh(history_tick, pawn_key) ==
    /\ command_history' =
           IF pawn_key \in DOMAIN command_history
           THEN [command_history EXCEPT ![pawn_key] = with_capacity]
           ELSE command_history
    /\ Quiet("remove_history_until", pawn_key, history_tick, "none")
    /\ UNCHANGED <<queued_incoming_commands, queued_command_replays, replay_trigger>>

remove_history_until(history_tick, pawn_key) ==
    /\ command_history' =
           IF pawn_key \in DOMAIN command_history
           THEN [command_history EXCEPT
                    ![pawn_key] = remove_until(command_history[pawn_key], history_tick)]
           ELSE command_history
    /\ Quiet("remove_history_until", pawn_key, history_tick, "none")
    /\ UNCHANGED <<queued_incoming_commands, queued_command_replays, replay_trigger>>

\* pawn_init keeping the history of a pawn that is tracked already
\* (entry(pawn_key).or_insert_with(..) instead of insert)
pawn_init_keeping(pawn_key) ==
    /\ command_history' =
           IF pawn_key \in DOMAIN command_history
           THEN command_history
           ELSE MapPut(command_history, pawn_key, with_capacity)
    /\ Quiet("pawn_init", pawn_key, 0, "none")
    /\ UNCHANGED <<queued_incoming_commands, queued_command_replays, replay_trigger>>

pawn_init(pawn_key) ==
    /\ command_history' = MapPut(command_history, pawn_key, with_capacity)
    /\ Quiet("pawn_init", pawn_key, 0, "none")
    /\ UNCHANGED <<queued_incoming_commands, queued_command_replays, replay_trigger>>

\* pawn_cleanup also dropping the pawn's commands from both queues
pawn_cleanup_purging(pawn_key) ==
    /\ command_history' = MapRemove(command_history, pawn_key)
    /\ queued_incoming_commands' =
           SelectSeq(queued_incoming_commands, LAMBDA e : e[2] # pawn_key)
    /\ queued_command_replays' =
           SelectSeq(queued_command_replays, LAMBDA e : e[2] # pawn_key)
    /\ Quiet("pawn_cleanup", pawn_key, 0, "none")
    /\ UNCHANGED replay_trigger

pawn_cleanup(pawn_key) ==
    /\ command_history' = MapRemove(command_history, pawn_key)
    /\ Quiet("pawn_cleanup", pawn_key, 0, "none")
    /\ UNCHANGED <<queued_incoming_commands, queued_command_replays, replay_trigger>>

\* ------------------------------------------------------------------------
\* The replay pass
\* ------------------------------------------------------------------------

\* both variants of the key sent to pawn_reset
reset_call_untagged(pawn_key) == <<"pawn_reset", pawn_key[2]>>

\* the reset a pawn key asks of the state manager: pawn_reset(object_key) for
\* PawnKey::State, pawn_reset_entity(entity_key) for PawnKey::Entity
reset_call(pawn_key) ==
    IF pawn_key[1] = "State"
    THEN <<"pawn_reset", pawn_key[2]>>
    ELSE <<"pawn_reset_entity", pawn_key[2]>>

\* the elements of a finite set of numbers, ascending
RECURSIVE ascending(_)
ascending(S) ==
    IF S = {} THEN <<>>
    ELSE LET m == CHOOSE x \in S : \A y \in S : x <= y
         IN  <<m>> \o ascending(S \ {m})

\* the range walked from current_tick down to history_tick
replay_range_newest_first(command_buffer, history_tick, pawn_key) ==
    LET current_tick == command_buffer.sequence_num
        found == {tick \in stored_ticks(command_buffer) :
                     /\ tick \in history_tick..current_tick
                     /\ get(command_buffer, tick) # None}
        order == ascending(found)
    IN  [k \in 1..Len(order) |->
            <<order[Len(order) + 1 - k], pawn_key,
              get(command_buffer, order[Len(order) + 1 - k])[1]>>]

\* for tick in history_tick..=current_tick: push (tick, pawn_key, command)
\* for every tick of the range that get_mut finds.  Only a stored tick can
\* be found, so the range is walked over the stored ticks it contains.
replay_range(command_buffer, history_tick, pawn_key) ==
    LET current_tick == command_buffer.sequence_num
        found == {tick \in stored_ticks(command_buffer) :
                     /\ tick \in history_tick..current_tick
                     /\ get(command_buffer, tick) # None}
        order == ascending(found)
    IN  [k \in 1..Len(order) |->
            <<order[k], pawn_key, get(command_buffer, order[k])[1]>>]

\* the loop body clearing the queues before it looks for the history
replay_one_unguarded(history, pawn_key, history_tick, queues) ==
    IF pawn_key \in DOMAIN history
    THEN <<<<>>, replay_range(history[pawn_key], history_tick, pawn_key)>>
    ELSE <<<<>>, <<>>>>

\* the loop body without the two clear() calls: the range is pushed behind
\* what replays holds, and incoming stays
replay_one_appending(history, pawn_key, history_tick, queues) ==
    IF pawn_key \in DOMAIN history
    THEN <<queues[1],
           queues[2] \o replay_range(history[pawn_key], history_tick, pawn_key)>>
    ELSE queues

\* the body of the loop for one (pawn_key, history_tick) of replay_trigger:
\* the two queues <<incoming, replays>> as it leaves them
replay_one(history, pawn_key, history_tick, queues) ==
    IF pawn_key \in DOMAIN history
    THEN <<<<>>, replay_range(history[pawn_key], history_tick, pawn_key)>>
    ELSE queues

\* the loop over replay_trigger.iter(), visiting the keys in the given order
RECURSIVE replay_loop(_, _, _, _)
replay_loop(history, trigger, order, queues) ==
    IF order = <<>> THEN queues
    ELSE replay_loop(history, trigger, Tail(order),
                     replay_one(history, Head(order), trigger[Head(order)], queues))

\* the orders in which a HashMap may iterate over the keys in S
iteration_orders(S) ==
    {o \in [1..Cardinality(S) -> S] : \A i, j \in DOMAIN o : o[i] = o[j] => i = j}

\* the pass clearing both queues before the loop, triggers or not
process_command_replay_clearing ==
    \E order \in iteration_orders(DOMAIN replay_trigger) :
        LET queues == replay_loop(command_history, replay_trigger, order,
                                  <<<<>>, <<>>>>)
        IN  /\ reset_calls' = [k \in DOMAIN order |-> reset_call(order[k])]
            /\ queued_incoming_commands' = queues[1]
            /\ queued_command_replays' = queues[2]
            /\ replay_trigger' = EmptyMap
            /\ fired' = replay_trigger
            /\ last' = Call("process_command_replay", NoPawn, 0, "none")
            /\ result' = None
            /\ UNCHANGED <<command_history, run, manifest>>

process_command_replay ==
    \E order \in iteration_orders(DOMAIN replay_trigger) :
        LET queues == replay_loop(command_history, replay_trigger, order,
                                  <<queued_incoming_commands, queued_command_replays>>)
        IN  /\ reset_calls' = [k \in DOMAIN order |-> reset_call(order[k])]
            /\ queued_incoming_commands' = queues[1]
            /\ queued_command_replays' = queues[2]
            /\ replay_trigger' = EmptyMap
            /\ fired' = replay_trigger
            /\ last' = Call("process_command_replay", NoPawn, 0, "none")
            /\ result' = None
            /\ UNCHANGED <<command_history, run, manifest>>

\* ------------------------------------------------------------------------
\* Observers
\* ------------------------------------------------------------------------

\* the count command_history_count returns for a given history map
history_count(history, pawn_key) ==
    IF pawn_key \in DOMAIN history
    THEN get_entries_count(history[pawn_key])
    ELSE 0

command_history_count(pawn_key) == history_count(command_history, pawn_key)

\* ------------------------------------------------------------------------
\* Specification: the host calls the operations in any order
\* ------------------------------------------------------------------------

Next ==
    \/ pop_command
    \/ pop_command_replay
    \/ process_command_replay
    \/ \E t \in run.ticks, p \in run.pawns, c \in run.commands : queue_command(t, p, c)
    \/ \E t \in run.reports, p \in run.pawns : replay_commands(t, p)
    \/ \E t \in run.reports, p \in run.pawns : remove_history_until(t, p)
    \/ \E p \in run.pawns : pawn_init(p)
    \/ \E p \in run.pawns : pawn_cleanup(p)

Spec == Init /\ [][Next]_vars

\* ------------------------------------------------------------------------
\* Specification of a filling run: the host owns one pawn and queues one
\* command at every tick 0, 1, 2, ... up to FillLast, popping as it likes
\* ------------------------------------------------------------------------

FillPawn == <<"State", 1>>

\* the command the host emits at a tick of the filling run
fill_command(tick) == IF tick % 2 = 0 THEN "A" ELSE "B"

FillRun ==
    [pawns |-> {FillPawn}, ticks |-> 0..FillLast, commands |-> Commands,
     reports |-> {}]

\* the tick the host is at: the one after the newest command it has queued
fill_tick ==
    IF command_history_count(FillPawn) = 0
    THEN 0
    ELSE command_history[FillPawn].sequence_num + 1

FillInit ==
    /\ manifest_new
    /\ queued_incoming_commands = <<>>
    /\ command_history = EmptyMap
    /\ queued_command_replays = <<>>
    /\ replay_trigger = EmptyMap
    /\ run = FillRun
    /\ last = Call("new", NoPawn, 0, "none")
    /\ result = None
    /\ reset_calls = <<>>
    /\ fired = EmptyMap

FillNext ==
    \/ pawn_init(FillPawn)
    \/ /\ FillPawn \in DOMAIN command_history
       /\ fill_tick <= FillLast
       /\ queue_command(fill_tick, FillPawn, fill_command(fill_tick))
    \/ pop_command

SpecFill == FillInit /\ [][FillNext]_vars

\* ------------------------------------------------------------------------
\* Vocabulary of the properties
\* ------------------------------------------------------------------------

\* the last operation was a replay pass
AfterPass == last.op = "process_command_replay"

\* the entries of a queue that belong to one pawn, in queue order
of_pawn(queue, pawn_key) == SelectSeq(queue, LAMBDA e : e[2] = pawn_key)

\* a is strictly earlier than b under wrapping comparison
earlier(a, b) == wrapping_diff(a, b) < 0

\* the stored ticks t of a buffer with h <= t <= sequence_num under wrapping
\* comparison, in wrapping order from h on, as replay entries of the pawn
wrapping_range(buf, h, pawn_key) ==
    LET inside == {t \in stored_ticks(buf) :
                      /\ ~earlier(t, h)
                      /\ ~earlier(buf.sequence_num, t)}
        offsets == ascending({(t - h) % TickModulus : t \in inside})
    IN  [k \in 1..Len(offsets) |->
            LET t == (h + offsets[k]) % TickModulus
            IN  <<t, pawn_key, get(buf, t)[1]>>]

\* how often a call occurs in a sequence of calls
times_in(calls, call) == Cardinality({k \in DOMAIN calls : calls[k] = call})

\* how often a call occurs among the calls the state manager received
times_called(call) == times_in(reset_calls, call)

\* ------------------------------------------------------------------------
\* C1: after a pass that found the single trigger (p, h) of a tracked pawn,
\* replays holds exactly the entries of history[p] with tick from h up to
\* sequence_num under wrapping order, also across the 65535 -> 0 wrap.
\* ------------------------------------------------------------------------
C1_ReplaysWrappingRange ==
    AfterPass =>
        \A p \in DOMAIN fired :
            (DOMAIN fired = {p} /\ p \in DOMAIN command_history) =>
                queued_command_replays =
                    wrapping_range(command_history[p], fired[p], p)

\* ------------------------------------------------------------------------
\* C2: after a pass, replays holds the replayed range of every tracked pawn
\* that had a pending trigger; no pawn's range is discarded by another's.
\* ------------------------------------------------------------------------
C2_EveryPawnReplayed ==
    AfterPass =>
        \A p \in DOMAIN fired \cap DOMAIN command_history :
            of_pawn(queued_command_replays, p) =
                replay_range(command_history[p], fired[p], p)

\* ------------------------------------------------------------------------
\* C3: pawn_cleanup(p) leaves no pending trigger for p, and a pass that
\* directly follows it does not reset p.
\* ------------------------------------------------------------------------
C3_CleanupDropsTrigger ==
    [][ /\ last'.op = "pawn_cleanup" => last'.pawn \notin DOMAIN replay_trigger'
        /\ (last.op = "pawn_cleanup" /\ last'.op = "process_command_replay") =>
               times_in(reset_calls', reset_call(last.pawn)) = 0 ]_vars

\* ------------------------------------------------------------------------
\* C4
\* ------------------------------------------------------------------------

\* two ticks exactly half the tick circle apart
half_apart(a, b) == (a - b) % TickModulus = HalfCircle

\* C4 (as claimed): a request h over a pending trigger t leaves the tick
\* that requesting t over a pending h would leave, the earlier of the two;
\* the stored trigger does not depend on the order of the two requests.
C4_OrderIndependent ==
    [][ (last'.op = "replay_commands" /\ last'.pawn \in DOMAIN replay_trigger) =>
            LET t == replay_trigger[last'.pawn]
                h == last'.tick
            IN  /\ replay_trigger'[last'.pawn] = merged_trigger(h, t)
                /\ ~earlier(t, replay_trigger'[last'.pawn])
                /\ ~earlier(h, replay_trigger'[last'.pawn]) ]_vars

\* C4 (amended): unless the two ticks are exactly half the circle apart,
\* the stored trigger is the earlier of the two whatever the order of the
\* requests, and a later request never replaces an earlier pending one;
\* when they are exactly half the circle apart the pending one stays.
C4_EarliestWins ==
    [][ (last'.op = "replay_commands" /\ last'.pawn \in DOMAIN replay_trigger) =>
            LET t == replay_trigger[last'.pawn]
                h == last'.tick
                kept == replay_trigger'[last'.pawn]
            IN  /\ kept \in {t, h}
                /\ earlier(t, h) => kept = t
                /\ half_apart(t, h) => kept = t
                /\ ~half_apart(t, h) =>
                       /\ kept = merged_trigger(h, t)
                       /\ ~earlier(t, kept)
                       /\ ~earlier(h, kept)
                /\ \A q \in DOMAIN replay_trigger \ {last'.pawn} :
                       replay_trigger'[q] = replay_trigger[q] ]_vars

\* a later request has met an earlier pending trigger, which stayed
C4_Witness ==
    /\ last.op = "replay_commands"
    /\ last.pawn \in DOMAIN replay_trigger
    /\ replay_trigger[last.pawn] # last.tick
    /\ earlier(replay_trigger[last.pawn], last.tick)
    /\ ~half_apart(replay_trigger[last.pawn], last.tick)

\* ------------------------------------------------------------------------
\* C5: after a pass replay_trigger is empty, and the pass has called
\* pawn_reset exactly once for each State key that had a pending trigger,
\* pawn_reset_entity exactly once for each Entity key that had one, and
\* no reset for any other pawn.
\* ------------------------------------------------------------------------
C5_ResetOncePerTrigger ==
    AfterPass =>
        /\ replay_trigger = EmptyMap
        /\ Len(reset_calls) = Cardinality(DOMAIN fired)
        /\ \A p \in Pawns :
               LET pending == IF p \in DOMAIN fired THEN 1 ELSE 0
               IN  /\ p[1] = "State" =>
                          times_called(<<"pawn_reset", p[2]>>) = pending
                   /\ p[1] = "Entity" =>
                          times_called(<<"pawn_reset_entity", p[2]>>) = pending

\* a pass has found triggers of a State key and of an Entity key
C5_Witness ==
    /\ AfterPass
    /\ DOMAIN fired = Pawns
    /\ Len(reset_calls) = 2

\* ------------------------------------------------------------------------
\* C6: the entries of one pawn in replays are in strictly ascending tick
\* order under wrapping comparison, no tick repeated; pop_command_replay
\* takes them from the front, so it returns them in that order.
\* ------------------------------------------------------------------------
C6_ReplaysAscending ==
    \A p \in Pawns :
        LET mine == of_pawn(queued_command_replays, p)
        IN  \A i, j \in DOMAIN mine :
                i < j => wrapping_diff(mine[j][1], mine[i][1]) > 0

\* ------------------------------------------------------------------------
\* C7: queue_command(tick, p, cmd) appends exactly (tick, p, cmd) to the
\* back of incoming; it inserts cmd into history[p] iff p is tracked (the
\* command is then found at its tick unless the tick is behind the window),
\* creates no history for an untracked pawn, and leaves replays,
\* replay_trigger and every other pawn's history unchanged.
\* ------------------------------------------------------------------------
C7_QueueCommandFrame ==
    [][ last'.op = "queue_command" =>
            LET p == last'.pawn
                t == last'.tick
                c == last'.cmd
            IN  /\ queued_incoming_commands' =
                       Append(queued_incoming_commands, <<t, p, c>>)
                /\ queued_command_replays' = queued_command_replays
                /\ replay_trigger' = replay_trigger
                /\ DOMAIN command_history' = DOMAIN command_history
                /\ \A q \in DOMAIN command_history \ {p} :
                       command_history'[q] = command_history[q]
                /\ p \in DOMAIN command_history =>
                       LET seq == command_history[p].sequence_num
                       IN  /\ command_history'[p] = insert(command_history[p], t, c)
                           /\ (wrapping_diff(t, seq) > 0 \/
                               wrapping_diff(seq, t) \in 0..(COMMAND_HISTORY_SIZE - 1))
                                  => get(command_history'[p], t) = <<c>>
                /\ p \notin DOMAIN command_history =>
                       history_count(command_history', p) = 0 ]_vars

\* a command was queued for an untracked pawn while the other pawn has a
\* history that holds commands
C7_Witness ==
    /\ last.op = "queue_command"
    /\ last.pawn \notin DOMAIN command_history
    /\ Len(queued_incoming_commands) = 2
    /\ \E q \in DOMAIN command_history : command_history_count(q) > 0

\* ------------------------------------------------------------------------
\* C8: a pass whose pending triggers are all for untracked pawns calls each
\* such pawn's reset once and leaves incoming, replays and all histories as
\* they were; in no pass is a replay entry enqueued for an untracked pawn.
\* ------------------------------------------------------------------------
C8_UntrackedTriggerNoOp ==
    [][ last'.op = "process_command_replay" =>
            /\ \A p \in DOMAIN replay_trigger \ DOMAIN command_history :
                   /\ times_in(reset_calls',
                               IF p[1] = "State"
                               THEN <<"pawn_reset", p[2]>>
                               ELSE <<"pawn_reset_entity", p[2]>>) = 1
                   /\ of_pawn(queued_command_replays', p)
                          \in {of_pawn(queued_command_replays, p), <<>>}
            /\ (replay_trigger # EmptyMap /\
                DOMAIN replay_trigger \cap DOMAIN command_history = {}) =>
                   /\ queued_incoming_commands' = queued_incoming_commands
                   /\ queued_command_replays' = queued_command_replays
                   /\ command_history' = command_history ]_vars

\* a pass has found only a trigger of an untracked pawn, and both queues
\* still hold commands
C8_Witness ==
    /\ AfterPass
    /\ fired # EmptyMap
    /\ DOMAIN fired \cap DOMAIN command_history = {}
    /\ Len(reset_calls) = 1
    /\ queued_incoming_commands # <<>>
    /\ queued_command_replays # <<>>

\* ------------------------------------------------------------------------
\* C9: a pass that finds replay_trigger empty changes nothing and calls no
\* reset; so of two successive passes the second leaves both queues as the
\* first left them.
\* ------------------------------------------------------------------------
C9_EmptyPassNoOp ==
    [][ /\ (last'.op = "process_command_replay" /\ replay_trigger = EmptyMap) =>
               /\ queued_incoming_commands' = queued_incoming_commands
               /\ queued_command_replays' = queued_command_replays
               /\ command_history' = command_history
               /\ replay_trigger' = replay_trigger
               /\ reset_calls' = <<>>
        /\ (AfterPass /\ last'.op = "process_command_replay") =>
               /\ queued_incoming_commands' = queued_incoming_commands
               /\ queued_command_replays' = queued_command_replays ]_vars

\* a pass has found no trigger while both queues held commands
C9_Witness ==
    /\ AfterPass
    /\ fired = EmptyMap
    /\ reset_calls = <<>>
    /\ queued_incoming_commands # <<>>
    /\ queued_command_replays # <<>>

\* ------------------------------------------------------------------------
\* C10: pop_command returns the front of incoming and removes just that
\* entry, queue_command adds behind what is queued, so delivery follows
\* call order and no entry is returned twice; pop_command_replay does the
\* same on replays; a pop on an empty queue returns None and changes nothing.
\* ------------------------------------------------------------------------
C10_PopFifo ==
    [][ /\ last'.op = "pop_command" =>
               /\ IF queued_incoming_commands = <<>>
                  THEN /\ result' = None
                       /\ queued_incoming_commands' = <<>>
                  ELSE /\ result' = <<queued_incoming_commands[1]>>
                       /\ queued_incoming_commands' =
                              SubSeq(queued_incoming_commands, 2,
                                     Len(queued_incoming_commands))
               /\ UNCHANGED <<queued_command_replays, command_history, replay_trigger>>
        /\ last'.op = "pop_command_replay" =>
               /\ IF queued_command_replays = <<>>
                  THEN /\ result' = None
                       /\ queued_command_replays' = <<>>
                  ELSE /\ result' = <<queued_command_replays[1]>>
                       /\ queued_command_replays' =
                              SubSeq(queued_command_replays, 2,
                                     Len(queued_command_replays))
               /\ UNCHANGED <<queued_incoming_commands, command_history, replay_trigger>>
        /\ last'.op = "queue_command" =>
               /\ Len(queued_incoming_commands') = Len(queued_incoming_commands) + 1
               /\ SubSeq(queued_incoming_commands', 1, Len(queued_incoming_commands))
                      = queued_incoming_commands ]_vars

\* pop_command has returned the first of two different queued entries and
\* the second is still queued
C10_Witness ==
    /\ last.op = "pop_command"
    /\ result # None
    /\ queued_incoming_commands # <<>>
    /\ result[1] # queued_incoming_commands[1]

\* ------------------------------------------------------------------------
\* C11: pawn_cleanup(p) leaves incoming and replays as they were, so the
\* commands queued for p are still delivered in their positions, while
\* command_history_count(p) becomes 0 and p has no history to iterate.
\* ------------------------------------------------------------------------
C11_CleanupKeepsQueues ==
    [][ last'.op = "pawn_cleanup" =>
            /\ queued_incoming_commands' = queued_incoming_commands
            /\ queued_command_replays' = queued_command_replays
            /\ last'.pawn \notin DOMAIN command_history'
            /\ history_count(command_history', last'.pawn) = 0
            /\ \A q \in DOMAIN command_history \ {last'.pawn} :
                   /\ q \in DOMAIN command_history'
                   /\ command_history'[q] = command_history[q] ]_vars

\* a pawn was cleaned up while incoming and replays held commands of it
C11_Witness ==
    /\ last.op = "pawn_cleanup"
    /\ last.pawn \notin DOMAIN command_history
    /\ of_pawn(queued_incoming_commands, last.pawn) # <<>>
    /\ of_pawn(queued_command_replays, last.pawn) # <<>>

\* ------------------------------------------------------------------------
\* C12: remove_history_until(t, p) removes from history[p] exactly the
\* entries strictly older than t under wrapping comparison and keeps the
\* rest (the entry at t too), does nothing when p is untracked, and leaves
\* incoming, replays and replay_trigger unchanged; a replay of p from any h
\* then enqueues no command older than t.
\* ------------------------------------------------------------------------
C12_RemoveHistoryUntil ==
    [][ last'.op = "remove_history_until" =>
            LET p == last'.pawn
                t == last'.tick
            IN  /\ queued_incoming_commands' = queued_incoming_commands
                /\ queued_command_replays' = queued_command_replays
                /\ replay_trigger' = replay_trigger
                /\ DOMAIN command_history' = DOMAIN command_history
                /\ \A q \in DOMAIN command_history \ {p} :
                       command_history'[q] = command_history[q]
                /\ p \in DOMAIN command_history =>
                       /\ command_history'[p].sequence_num =
                              command_history[p].sequence_num
                       /\ stored_ticks(command_history'[p]) =
                              {s \in stored_ticks(command_history[p]) :
                                  ~(wrapping_diff(t, s) > 0)}
                       /\ \A s \in stored_ticks(command_history'[p]) :
                              get(command_history'[p], s) = get(command_history[p], s)
                       /\ \A h \in run.reports :
                              LET replayed == replay_range(command_history'[p], h, p)
                              IN  \A k \in DOMAIN replayed :
                                      ~(wrapping_diff(t, replayed[k][1]) > 0) ]_vars

\* history was removed up to a tick: the entry at that tick is still held,
\* and a command queued at an older tick is not held any more
C12_Witness ==
    /\ last.op = "remove_history_until"
    /\ last.pawn \in DOMAIN command_history
    /\ get(command_history[last.pawn], last.tick) # None
    /\ \E k \in DOMAIN queued_incoming_commands :
           /\ queued_incoming_commands[k][2] = last.pawn
           /\ wrapping_diff(last.tick, queued_incoming_commands[k][1]) > 0
           /\ get(command_history[last.pawn], queued_incoming_commands[k][1]) = None

\* ------------------------------------------------------------------------
\* C13: after pawn_init(p) history[p] exists and is empty, whether or not p
\* was tracked before.  A history entry is from then on either one that was
\* held before the step or the command queued by the step, and a pass
\* enqueues only entries the history holds: commands queued for p before a
\* re-initialisation are produced by no later replay of p.
\* ------------------------------------------------------------------------
C13_InitEmptiesHistory ==
    [][ /\ last'.op = "pawn_init" =>
               LET p == last'.pawn
               IN  /\ p \in DOMAIN command_history'
                   /\ DOMAIN command_history'[p].entries = {}
                   /\ history_count(command_history', p) = 0
                   /\ \A h \in run.reports :
                          replay_range(command_history'[p], h, p) = <<>>
        /\ \A p \in DOMAIN command_history' :
               \A i \in DOMAIN command_history'[p].entries :
                   \/ /\ ~(last'.op = "pawn_init" /\ last'.pawn = p)
                      /\ p \in DOMAIN command_history
                      /\ i \in DOMAIN command_history[p].entries
                      /\ command_history[p].entries[i] = command_history'[p].entries[i]
                   \/ /\ last'.op = "queue_command"
                      /\ last'.pawn = p
                      /\ command_history'[p].entries[i] = <<last'.tick, last'.cmd>>
        /\ last'.op = "process_command_replay" =>
               \/ queued_command_replays' = queued_command_replays
               \/ \A k \in DOMAIN queued_command_replays' :
                      LET e == queued_command_replays'[k]
                      IN  /\ e[2] \in DOMAIN command_history
                          /\ get(command_history[e[2]], e[1]) = <<e[3]>> ]_vars

\* a pawn that had been tracked (replays holds commands of it) and has a
\* pending trigger was initialised again
C13_Witness ==
    /\ last.op = "pawn_init"
    /\ last.pawn \in DOMAIN command_history
    /\ command_history_count(last.pawn) = 0
    /\ of_pawn(queued_command_replays, last.pawn) # <<>>
    /\ last.pawn \in DOMAIN replay_trigger

C15_NoCommandLost ==
    [][ (/\ last'.op = "process_command_replay"
         /\ DOMAIN replay_trigger \cap DOMAIN command_history # {}) =>
            \A k \in DOMAIN queued_incoming_commands :
                \E j \in DOMAIN queued_command_replays' :
                    queued_command_replays'[j] = queued_incoming_commands[k] ]_vars

\* ------------------------------------------------------------------------
\* C16: right after a pass in which the trigger of at least one tracked pawn
\* fired, incoming is empty and replays holds only what the pass enqueued:
\* the range replayed for one of those pawns, nothing left from before.
\* ------------------------------------------------------------------------
C16_PassLeavesOnlyItsReplays ==
    (AfterPass /\ DOMAIN fired \cap DOMAIN command_history # {}) =>
        /\ queued_incoming_commands = <<>>
        /\ \E p \in DOMAIN fired \cap DOMAIN command_history :
               queued_command_replays =
                   replay_range(command_history[p], fired[p], p)
        /\ \A k \in DOMAIN queued_command_replays :
               LET e == queued_command_replays[k]
               IN  /\ e[2] \in DOMAIN fired \cap DOMAIN command_history
                   /\ e[1] \in fired[e[2]]..command_history[e[2]].sequence_num
                   /\ get(command_history[e[2]], e[1]) = <<e[3]>>
        /\ \A j, k \in DOMAIN queued_command_replays :
               j < k => queued_command_replays[j][1] < queued_command_replays[k][1]

\* a pass has replayed two commands of a tracked pawn
C16_Witness ==
    /\ AfterPass
    /\ DOMAIN fired \cap DOMAIN command_history # {}
    /\ Len(queued_command_replays) >= 2
    /\ queued_incoming_commands = <<>>

\* ------------------------------------------------------------------------
\* C17: the ticks of the queued entries against the retained windows
\* ------------------------------------------------------------------------
\* tick lies in the retained window [sequence_num - 63, sequence_num] of buf
in_window(buf, tick) ==
    LET behind == wrapping_diff(buf.sequence_num, tick)
    IN  behind >= 0 /\ behind < COMMAND_HISTORY_SIZE

\* C17 as claimed: in every reachable state each entry of incoming and of
\* replays has a tick inside the retained window of some tracked pawn
C17_QueuedTicksInWindow ==
    \A queue \in {queued_incoming_commands, queued_command_replays} :
        \A k \in DOMAIN queue :
            \E p \in DOMAIN command_history :
                in_window(command_history[p], queue[k][1])

\* C17 as the code has it: right after queue_command for a tracked pawn the
\* entry at the back of incoming carries a tick the pawn's history holds
\* with that command unless
\* the tick is 64 or more behind sequence_num (then it is queued but not
\* retained); right after a pass that replayed a tracked pawn every entry of
\* replays carries a tick its own pawn's history holds with that command.  Entries of untracked
\* pawns are queued without any window.
C17_TrackedTicksHeld ==
    /\ (last.op = "queue_command" /\ last.pawn \in DOMAIN command_history) =>
           LET buf == command_history[last.pawn]
               behind == wrapping_diff(buf.sequence_num, last.tick)
           IN  /\ queued_incoming_commands[Len(queued_incoming_commands)] =
                      <<last.tick, last.pawn, last.cmd>>
               /\ \/ behind >= COMMAND_HISTORY_SIZE
                  \/ get(buf, last.tick) = <<last.cmd>>
    /\ (AfterPass /\ DOMAIN fired \cap DOMAIN command_history # {}) =>
           \A k \in DOMAIN queued_command_replays :
               LET e == queued_command_replays[k]
               IN  /\ e[2] \in DOMAIN command_history
                   /\ get(command_history[e[2]], e[1]) = <<e[3]>>

\* a command was queued for a tracked pawn at a tick behind its sequence_num
\* and is held, while incoming also holds an older entry
C17_Witness ==
    /\ last.op = "queue_command"
    /\ last.pawn \in DOMAIN command_history
    /\ command_history[last.pawn].sequence_num # last.tick
    /\ get(command_history[last.pawn], last.tick) = <<last.cmd>>
    /\ Len(queued_incoming_commands) >= 2

\* ------------------------------------------------------------------------
\* C18: sequence_num of a tracked pawn's history across one operation
\* ------------------------------------------------------------------------
\* the pawns tracked before and after the step
stays_tracked == DOMAIN command_history \cap DOMAIN command_history'

\* sequence_num of p after the step is equal to or newer than before
not_older(p) ==
    wrapping_diff(command_history'[p].sequence_num,
                  command_history[p].sequence_num) >= 0

\* C18 as claimed: across every single operation, pawn_init on a tracked
\* pawn included, the new sequence_num of each pawn that stays tracked is
\* equal to or newer than the previous one under wrapping comparison
C18_SequenceNeverOlder ==
    [][ \A p \in stays_tracked : not_older(p) ]_vars

\* C18 as the code has it: across every operation other than pawn_init on
\* that pawn the new sequence_num is equal to or newer than the previous
\* one; pawn_init on a tracked pawn replaces the buffer, sequence_num is 0
\* and the history is empty afterwards whatever it was before
C18_SequenceOlderOnlyByInit ==
    [][ \A p \in stays_tracked :
          IF last'.op = "pawn_init" /\ last'.pawn = p
          THEN command_history'[p] = with_capacity
          ELSE not_older(p) ]_vars

\* queue_command has advanced a tracked pawn's sequence_num
C18_Witness ==
    /\ last.op = "queue_command"
    /\ last.pawn \in DOMAIN command_history
    /\ command_history[last.pawn].sequence_num = last.tick
    /\ last.tick # 0

\* ------------------------------------------------------------------------
\* C19: what a pass replays against what queue_command delivered
\* ------------------------------------------------------------------------
\* incoming is the record of what queue_command delivered to the history of
\* p: nothing but entries of p, each at a tick the history stores, and
\* every tick the history stores is among them
complete_record(p) ==
    /\ \A k \in DOMAIN queued_incoming_commands :
           /\ queued_incoming_commands[k][2] = p
           /\ queued_incoming_commands[k][1] \in stored_ticks(command_history[p])
    /\ \A t \in stored_ticks(command_history[p]) :
           \E k \in DOMAIN queued_incoming_commands :
               queued_incoming_commands[k][1] = t

\* the deliveries of incoming at the ticks h..sequence_num of p, in the
\* order queue_command made them
delivered(p, h) ==
    SelectSeq(queued_incoming_commands,
              LAMBDA e : e[1] \in h..command_history[p].sequence_num)

\* the last entry of a queue at tick t
last_at(queue, t) ==
    LET at == {k \in DOMAIN queue : queue[k][1] = t}
    IN  queue[CHOOSE k \in at : \A j \in at : j <= k]

\* a pass for the one trigger (p, h) of a tracked pawn whose deliveries are
\* all on record in incoming
replays_record(p) ==
    /\ last'.op = "process_command_replay"
    /\ DOMAIN replay_trigger = {p}
    /\ p \in DOMAIN command_history
    /\ complete_record(p)

\* C19 as claimed: the pass replays the deliveries at the ticks h..sequence_num
\* in the order queue_command made them, also when a tick was delivered
\* twice or the ticks were not ascending
C19_ReplayEqualsDelivery ==
    [][ \A p \in run.pawns :
          replays_record(p) =>
              queued_command_replays' = delivered(p, replay_trigger[p]) ]_vars

\* C19 as the code has it: the pass replays one entry for each tick delivered
\* in h..sequence_num, in ascending tick order, carrying the command of the
\* last delivery at that tick; this is the delivery sequence itself when
\* the ticks were delivered once each in ascending order
C19_ReplayLastPerTickAscending ==
    [][ \A p \in run.pawns :
          replays_record(p) =>
              LET d == delivered(p, replay_trigger[p])
                  order == ascending({d[k][1] : k \in DOMAIN d})
              IN  /\ queued_command_replays' =
                         [k \in 1..Len(order) |-> last_at(d, order[k])]
                  /\ (\A j, k \in DOMAIN d : j < k => d[j][1] < d[k][1]) =>
                         queued_command_replays' = d ]_vars

\* a pass has replayed the commands of two ticks of the one pawn whose
\* trigger fired
C19_Witness ==
    /\ AfterPass
    /\ \E p \in DOMAIN command_history : DOMAIN fired = {p}
    /\ Len(queued_command_replays) = 2
    /\ queued_command_replays[1][1] < queued_command_replays[2][1]

\* ------------------------------------------------------------------------
\* Manifest
\* ------------------------------------------------------------------------
\* the types events and entities are registered with
TypeIds == {"T1", "T2"}

\* event_builder.get_type_id(): a builder is written as the type it builds
get_type_id(builder) == builder

\* register_event drawing the id from the entity counter
register_event_shared(event_builder) ==
    /\ event_gaia_id_count < MaxRegistrations
    /\ LET new_gaia_id == entity_gaia_id_count
           type_id == get_type_id(event_builder)
       IN  /\ event_type_map' = MapPut(event_type_map, type_id, new_gaia_id)
           /\ event_builder_map' = MapPut(event_builder_map, new_gaia_id, event_builder)
           /\ event_gaia_id_count' = event_gaia_id_count + 1
    /\ event_calls' = Append(event_calls, get_type_id(event_builder))
    /\ UNCHANGED <<entity_gaia_id_count, entity_builder_map, entity_type_map,
                   entity_calls, receiver>>

register_event(event_builder) ==
    /\ event_gaia_id_count < MaxRegistrations
    /\ LET new_gaia_id == event_gaia_id_count
           type_id == get_type_id(event_builder)
       IN  /\ event_type_map' = MapPut(event_type_map, type_id, new_gaia_id)
           /\ event_builder_map' = MapPut(event_builder_map, new_gaia_id, event_builder)
           /\ event_gaia_id_count' = event_gaia_id_count + 1
    /\ event_calls' = Append(event_calls, get_type_id(event_builder))
    /\ UNCHANGED <<entity_gaia_id_count, entity_builder_map, entity_type_map,
                   entity_calls, receiver>>

\* Some(gaia_id), written <<gaia_id>>, or None where the code panics on expect
get_event_gaia_id(type_id) ==
    IF type_id \in DOMAIN event_type_map THEN <<event_type_map[type_id]>> ELSE None

\* Some(event), written <<type built>>, iff a builder is registered under gaia_id
create_event(gaia_id) ==
    IF gaia_id \in DOMAIN event_builder_map
    THEN <<event_builder_map[gaia_id]>>
    ELSE None

register_entity(entity_builder) ==
    /\ entity_gaia_id_count < MaxRegistrations
    /\ LET new_gaia_id == entity_gaia_id_count
           type_id == get_type_id(entity_builder)
       IN  /\ entity_type_map' = MapPut(entity_type_map, type_id, new_gaia_id)
           /\ entity_builder_map' = MapPut(entity_builder_map, new_gaia_id, entity_builder)
           /\ entity_gaia_id_count' = entity_gaia_id_count + 1
    /\ entity_calls' = Append(entity_calls, get_type_id(entity_builder))
    /\ UNCHANGED <<event_gaia_id_count, event_builder_map, event_type_map,
                   event_calls, receiver>>

get_entity_gaia_id(type_id) ==
    IF type_id \in DOMAIN entity_type_map THEN <<entity_type_map[type_id]>> ELSE None

create_entity(gaia_id) ==
    IF gaia_id \in DOMAIN entity_builder_map
    THEN <<entity_builder_map[gaia_id]>>
    ELSE None

ManifestNext ==
    \/ \E event_builder \in TypeIds : register_event(event_builder)
    \/ \E entity_builder \in TypeIds : register_entity(entity_builder)

ManifestSpec == Init /\ [][ManifestNext]_vars

\* the ids create_event and create_entity are asked for
AskedIds == 0..(MaxRegistrations + 1)

\* the position of the most recent call with type_id in a sequence of calls
most_recent(calls, type_id) ==
    CHOOSE k \in DOMAIN calls :
        /\ calls[k] = type_id
        /\ \A j \in DOMAIN calls : calls[j] = type_id => j <= k

\* ------------------------------------------------------------------------
\* C20: after any sequence of register_event and register_entity calls the
\* k-th register_event call (k = 1, 2, ...) has id k - 1 whatever entities
\* were registered, create_event(id) is Some exactly for the ids below the
\* number of register_event calls and builds what that call registered,
\* and get_event_gaia_id(type) is the id of the most recent registration of
\* the type; the same for entities.
\* ------------------------------------------------------------------------
C20_ManifestIds ==
    /\ event_gaia_id_count = Len(event_calls)
    /\ \A k \in DOMAIN event_calls : create_event(k - 1) = <<event_calls[k]>>
    /\ \A id \in AskedIds : create_event(id) # None <=> id < Len(event_calls)
    /\ \A t \in TypeIds :
           (\E k \in DOMAIN event_calls : event_calls[k] = t) =>
               get_event_gaia_id(t) = <<most_recent(event_calls, t) - 1>>
    /\ entity_gaia_id_count = Len(entity_calls)
    /\ \A k \in DOMAIN entity_calls : create_entity(k - 1) = <<entity_calls[k]>>
    /\ \A id \in AskedIds : create_entity(id) # None <=> id < Len(entity_calls)
    /\ \A t \in TypeIds :
           (\E k \in DOMAIN entity_calls : entity_calls[k] = t) =>
               get_entity_gaia_id(t) = <<most_recent(entity_calls, t) - 1>>

\* an event type was registered twice, another once, between entity
\* registrations
C20_Witness ==
    /\ Len(event_calls) = 3
    /\ event_calls[1] = event_calls[3]
    /\ event_calls[2] # event_calls[1]
    /\ Len(entity_calls) = 2
    /\ get_event_gaia_id(event_calls[1]) = <<2>>

====
